---- MODULE Spec2Model ----
(***************************************************************************)
(* Model of the misconception / difficulty backend:                        *)
(*   backend/models/analyzer.py   FSAG, MisconceptionAnalyzer              *)
(*   backend/models/difficulty.py DifficultyEstimator                      *)
(*   backend/models/text.py       embed, cosine_sim, clean_text            *)
(*   backend/app.py               construction of the three components     *)
(*                                                                         *)
(* Numbers.  Embedding coordinates, biases, activations and gate values    *)
(* are fixed-point tenths (10 stands for 1.0); weight-matrix entries are   *)
(* whole numbers.  Probabilities, confidences and risks are fixed-point    *)
(* ten-thousandths (10000 stands for 1.0), one digit finer than the three  *)
(* decimals the code rounds to; difficulties are fixed-point 1e-7.         *)
(***************************************************************************)
EXTENDS Integers, Sequences, FiniteSets, TLC

VARIABLES
    artifacts,  \* the artifact directory and the encoder handed to start-up
    fsag,       \* FSAG object: W1, b1, W2, b2, loaded
    clf,        \* MisconceptionAnalyzer.clf (NoneVal when no classifier)
    label_ref,  \* MisconceptionAnalyzer.label_ref: qid -> set of labels
    loaded,     \* MisconceptionAnalyzer.loaded
    encoder,    \* MisconceptionAnalyzer.encoder
    items,      \* DifficultyEstimator.items (NoneVal when no table)
    n_items,    \* DifficultyEstimator.n_items
    startup,    \* "ok", or the constructor whose exception ended start-up
    result      \* what the last call returned (or that it raised)

vars == <<artifacts, fsag, clf, label_ref, loaded, encoder, items, n_items, startup, result>>

(***************************************************************************)
(* Bounds of the model.                                                    *)
(***************************************************************************)
MaxDim == 3      \* widths of embeddings, of W1's input and of the gate
MaxHid == 2      \* hidden widths of the gate
MaxSeed == 3     \* distinct embedding patterns

(***************************************************************************)
(* Generic helpers.                                                        *)
(***************************************************************************)
NoneVal == [none |-> TRUE]

Max2(a, b) == IF a >= b THEN a ELSE b

Min2(a, b) == IF a <= b THEN a ELSE b

\* a / b rounded to the nearest integer (b > 0), halves upward
RoundDiv(a, b) == (2 * a + b) \div (2 * b)

RECURSIVE SumSeq(_)
SumSeq(s) == IF s = <<>> THEN 0 ELSE Head(s) + SumSeq(Tail(s))

Dot(u, v) == SumSeq([j \in 1..Len(u) |-> u[j] * v[j]])

(***************************************************************************)
(* numpy arrays: a record of ndim, shape and data.  data is the sequence   *)
(* of the array's rows; a 1-d array has the single row data[1].            *)
(***************************************************************************)
Arr1(row) == [ndim |-> 1, shape |-> <<Len(row)>>, data |-> <<row>>]

Arr2(n, d, rows) == [ndim |-> 2, shape |-> <<n, d>>, data |-> rows]

\* np.zeros / np.ones blocks appended to the right of every row
PadRow(row, width, fill) ==
    [j \in 1..width |-> IF j <= Len(row) THEN row[j] ELSE fill]

TruncRow(row, width) == SubSeq(row, 1, width)

(***************************************************************************)
(* FSAG._silu and FSAG._sigmoid on fixed-point tenths.  The logistic       *)
(* function is tabulated to the nearest tenth: Sigmoid(z) = k exactly when *)
(* 1/(1+exp(-z/10)) rounds to k/10.                                        *)
(***************************************************************************)
Sigmoid(z) ==
    IF z <= -30 THEN 0
    ELSE IF z <= -18 THEN 1
    ELSE IF z <= -11 THEN 2
    ELSE IF z <= -7 THEN 3
    ELSE IF z <= -3 THEN 4
    ELSE IF z <= 2 THEN 5
    ELSE IF z <= 6 THEN 6
    ELSE IF z <= 10 THEN 7
    ELSE IF z <= 17 THEN 8
    ELSE IF z <= 29 THEN 9
    ELSE 10

Silu(x) == RoundDiv(x * Sigmoid(x), 10)

(***************************************************************************)
(* The weights file fsag_weights.npz, as the constructor finds it.         *)
(***************************************************************************)
NoFile == [exists |-> FALSE]

CorruptFile == [exists |-> TRUE, readable |-> FALSE]

\* weight matrix of r rows and c columns; entries -1, 0, 1 chosen by s
WeightMat(r, c, s) ==
    Arr2(r, c, [i \in 1..r |-> [j \in 1..c |-> ((i + j + s) % 3) - 1]])

\* bias vector of length n, entries in tenths
BiasVec(n, s) == Arr1([i \in 1..n |-> (((i + s) % 3) - 1) * 10])

Bundle(w1, c1, w2, c2) ==
    [exists |-> TRUE, readable |-> TRUE, W1 |-> w1, b1 |-> c1, W2 |-> w2, b2 |-> c2]

\* bundles whose four arrays have the right number of dimensions; the
\* lengths of b1 and b2 and W2's input width are free
ShapedBundles ==
    { Bundle(WeightMat(h, din, s), BiasVec(bl1, s), WeightMat(g, h2, s + 1), BiasVec(bl2, s)) :
        h \in 1..MaxHid, din \in 1..MaxDim, bl1 \in 1..MaxHid,
        g \in 1..MaxDim, h2 \in 1..MaxHid, bl2 \in 1..MaxDim, s \in 0..1 }

\* bundles in which an array has the wrong number of dimensions
MisdimensionedBundles ==
    { Bundle(BiasVec(2, 0), BiasVec(2, 0), WeightMat(2, 2, 0), BiasVec(2, 0)),
      Bundle(WeightMat(2, 2, 0), BiasVec(2, 0), BiasVec(2, 0), BiasVec(2, 0)),
      Bundle(WeightMat(2, 2, 0), WeightMat(2, 1, 0), WeightMat(2, 2, 0), BiasVec(2, 0)),
      Bundle(WeightMat(2, 2, 0), BiasVec(2, 0), WeightMat(2, 2, 0), WeightMat(2, 1, 0)) }

GateFiles == {NoFile, CorruptFile} \cup ShapedBundles \cup MisdimensionedBundles

(***************************************************************************)
(* FSAG.__init__ and FSAG._try_load.                                       *)
(***************************************************************************)
Unloaded == [W1 |-> NoneVal, b1 |-> NoneVal, W2 |-> NoneVal, b2 |-> NoneVal, loaded |-> FALSE]

\* the four assert statements of _try_load
ShapeSanity(f) ==
    /\ f.W1.ndim = 2 /\ f.W2.ndim = 2
    /\ f.b1.ndim = 1 /\ f.b2.ndim = 1
    /\ f.W1.shape[1] = f.b1.shape[1]
    /\ f.W2.shape[1] = f.b2.shape[1]

TryLoad(f) ==
    IF f.exists
    THEN IF f.readable /\ ShapeSanity(f)
         THEN [W1 |-> f.W1, b1 |-> f.b1, W2 |-> f.W2, b2 |-> f.b2, loaded |-> TRUE]
         ELSE Unloaded
    ELSE Unloaded

(***************************************************************************)
(* FSAG._apply_with_weights.  H is (D,) or (N,D).  The matrix product      *)
(* U @ W2.T raises when W2's second dimension is not the hidden width.     *)
(***************************************************************************)
\* H.reshape(1, -1) for a 1-d H
Rows(H) == H.data

Width(H) == IF H.ndim = 1 THEN H.shape[1] ELSE H.shape[2]

\* pad with zeros or truncate every row to W1's input width
AdaptInput(rows, D, d1_in) ==
    IF D # d1_in
    THEN IF D < d1_in
         THEN [n \in 1..Len(rows) |-> PadRow(rows[n], d1_in, 0)]
         ELSE [n \in 1..Len(rows) |-> TruncRow(rows[n], d1_in)]
    ELSE rows

\* U = silu(H_use @ W1.T + b1)
HiddenLayer(fs, H_use) ==
    [n \in 1..Len(H_use) |->
        [k \in 1..fs.W1.shape[1] |-> Silu(Dot(H_use[n], fs.W1.data[k]) + fs.b1.data[1][k])]]

\* G = sigmoid(U @ W2.T + b2)
GateLayer(fs, U) ==
    [n \in 1..Len(U) |->
        [g \in 1..fs.W2.shape[1] |-> Sigmoid(Dot(U[n], fs.W2.data[g]) + fs.b2.data[1][g])]]

\* pad the gate with ones (10 tenths) or trim it to H's width
MatchGate(G, D) ==
    [n \in 1..Len(G) |->
        IF Len(G[n]) # D
        THEN IF Len(G[n]) < D THEN PadRow(G[n], D, 10) ELSE TruncRow(G[n], D)
        ELSE G[n]]

\* H_tilde = G * H, elementwise
Gated(G, rows) ==
    [n \in 1..Len(rows) |-> [j \in 1..Len(rows[n]) |-> RoundDiv(G[n][j] * rows[n][j], 10)]]

Reshape(H, rows) ==
    IF H.ndim = 1 THEN Arr1(rows[1]) ELSE Arr2(Len(rows), Len(rows[1]), rows)

\* variant: the gate multiplies the adapted H_use and is matched to its width
ApplyToAdapted(fs, H) ==
    LET H_use == AdaptInput(Rows(H), Width(H), fs.W1.shape[2])
    IN  IF fs.W2.shape[2] # fs.W1.shape[1]
        THEN [raised |-> TRUE]
        ELSE LET G == MatchGate(GateLayer(fs, HiddenLayer(fs, H_use)), fs.W1.shape[2])
             IN  [raised |-> FALSE, H_tilde |-> Reshape(H, Gated(G, H_use)), G |-> Reshape(H, G)]

ApplyWithWeights(fs, H) ==
    LET rows == Rows(H)
        D == Width(H)
        H_use == AdaptInput(rows, D, fs.W1.shape[2])
    IN  IF fs.W2.shape[2] # fs.W1.shape[1]
        THEN [raised |-> TRUE]
        ELSE LET G == MatchGate(GateLayer(fs, HiddenLayer(fs, H_use)), D)
             IN  [raised |-> FALSE, H_tilde |-> Reshape(H, Gated(G, rows)), G |-> Reshape(H, G)]

(***************************************************************************)
(* FSAG.transform and FSAG.gates.                                          *)
(***************************************************************************)
\* np.ones of H's shape (10 tenths)
OnesLike(H) ==
    IF H.ndim = 1
    THEN Arr1([j \in 1..H.shape[1] |-> 10])
    ELSE Arr2(H.shape[1], H.shape[2], [n \in 1..H.shape[1] |-> [j \in 1..H.shape[2] |-> 10]])

\* variant: the inactive gate returns the gate activations, not H
TransformReturnsOnes(fs, H) ==
    IF ~fs.loaded \/ fs.W1 = NoneVal
    THEN [raised |-> FALSE, value |-> OnesLike(H)]
    ELSE LET r == ApplyWithWeights(fs, H)
         IN  IF r.raised THEN [raised |-> TRUE] ELSE [raised |-> FALSE, value |-> r.H_tilde]

Transform(fs, H) ==
    IF ~fs.loaded \/ fs.W1 = NoneVal
    THEN [raised |-> FALSE, value |-> H]
    ELSE LET r == ApplyWithWeights(fs, H)
         IN  IF r.raised THEN [raised |-> TRUE] ELSE [raised |-> FALSE, value |-> r.H_tilde]

Gates(fs, H) ==
    IF ~fs.loaded \/ fs.W1 = NoneVal
    THEN [raised |-> FALSE, value |-> OnesLike(H)]
    ELSE LET r == ApplyWithWeights(fs, H)
         IN  IF r.raised THEN [raised |-> TRUE] ELSE [raised |-> FALSE, value |-> r.G]

(***************************************************************************)
(* Embeddings handed to the gate: pattern s of width d, in tenths.         *)
(***************************************************************************)
Vec(d, s) == [j \in 1..d |-> (((s * j) % 4) - 1) * 10]

SingleInputs == { Arr1(Vec(d, s)) : d \in 1..MaxDim, s \in 1..MaxSeed }

BatchInputs ==
    { Arr2(2, d, <<Vec(d, s), Vec(d, t)>>) : d \in 1..MaxDim, s \in 1..MaxSeed, t \in 1..MaxSeed }

GateInputs == SingleInputs \cup BatchInputs

(***************************************************************************)
(* Texts are sequences of characters.  text.clean_text strips the text and *)
(* replaces every run of whitespace by one space.                          *)
(***************************************************************************)
IsSpace(c) == c \in {" ", "\t", "\n"}

RECURSIVE LStrip(_)
LStrip(t) == IF t # <<>> /\ IsSpace(Head(t)) THEN LStrip(Tail(t)) ELSE t

RECURSIVE RStrip(_)
RStrip(t) ==
    IF t # <<>> /\ IsSpace(t[Len(t)]) THEN RStrip(SubSeq(t, 1, Len(t) - 1)) ELSE t

Strip(t) == RStrip(LStrip(t))

\* re.sub(r"\s+", " ", t)
RECURSIVE CollapseSpaces(_)
CollapseSpaces(t) ==
    IF t = <<>> THEN <<>>
    ELSE IF IsSpace(Head(t)) THEN <<" ">> \o CollapseSpaces(LStrip(t))
    ELSE <<Head(t)>> \o CollapseSpaces(Tail(t))

CleanText(t) == CollapseSpaces(Strip(t))

TxtA == <<"a">>

TxtAPadded == <<" ", "a", " ">>

TxtAB == <<"a", " ", "\t", "b">>

TxtEmpty == <<>>

Texts == {TxtA, TxtAPadded, TxtAB, TxtEmpty}

(***************************************************************************)
(* The encoder is an opaque, deterministic map from a text to a vector of  *)
(* its width (text.DummyEncoder hashes the text).  Here the hash of a text *)
(* selects one of the embedding patterns.                                  *)
(***************************************************************************)
CharCode(c) == IF c = "b" THEN 3 ELSE 1

TextHash(t) == (SumSeq([i \in 1..Len(t) |-> CharCode(t[i])]) % MaxSeed) + 1

EncoderWidths == {1, 2}

Encoders == { [dim |-> d] : d \in EncoderWidths }

\* encoder.encode(texts, normalize_embeddings=True)
Encode(enc, texts) == [i \in 1..Len(texts) |-> Vec(enc.dim, TextHash(texts[i]))]

\* text.embed: np.asarray(encoder.encode(texts)); np.vstack of no rows raises
Embed(texts, enc) ==
    IF texts = <<>>
    THEN [raised |-> TRUE]
    ELSE [raised |-> FALSE, value |-> Arr2(Len(texts), enc.dim, Encode(enc, texts))]

\* MisconceptionAnalyzer._embed_clean
EmbedClean(fs, enc, texts) ==
    LET vecs == Embed([i \in 1..Len(texts) |-> CleanText(texts[i])], enc)
    IN  IF vecs.raised THEN [raised |-> TRUE] ELSE Transform(fs, vecs.value)

(***************************************************************************)
(* text.cosine_sim and MisconceptionAnalyzer.similarity.  The product of   *)
(* two coordinates in tenths is in hundredths; the similarity is in        *)
(* ten-thousandths (10000 stands for 1.0), the four decimals the code      *)
(* rounds to.                                                              *)
(***************************************************************************)
\* max(-1.0, min(1.0, a @ b.T))
CosineSim(a, b) == Max2(-10000, Min2(10000, 100 * Dot(a, b)))

\* variant: the similarity is taken on the gated embeddings
SimilarityOnGated(fs, enc, a_text, b_text) ==
    LET vecs == EmbedClean(fs, enc, <<a_text, b_text>>)
    IN  IF vecs.raised THEN [raised |-> TRUE]
        ELSE [raised |-> FALSE, value |-> CosineSim(vecs.value.data[1], vecs.value.data[2])]

\* fs and enc are the fields of self; the embeddings come straight from embed
Similarity(fs, enc, a_text, b_text) ==
    LET vecs == Embed(<<CleanText(a_text), CleanText(b_text)>>, enc)
    IN  IF vecs.raised THEN [raised |-> TRUE]
        ELSE [raised |-> FALSE, value |-> CosineSim(vecs.value.data[1], vecs.value.data[2])]

(***************************************************************************)
(* Labels.  A class label is a value with a text; str is FALSE for a label *)
(* that is not a Python string (an integer class).  str(label) keeps the   *)
(* text.                                                                   *)
(***************************************************************************)
StrLabel(chars) == [str |-> TRUE, text |-> chars]

IntLabel(chars) == [str |-> FALSE, text |-> chars]

PyStr(label) == [str |-> TRUE, text |-> label.text]

UpperLetters == <<"A","B","C","D","E","F","G","H","I","J","K","L","M",
                  "N","O","P","Q","R","S","T","U","V","W","X","Y","Z">>

LowerLetters == <<"a","b","c","d","e","f","g","h","i","j","k","l","m",
                  "n","o","p","q","r","s","t","u","v","w","x","y","z">>

LowerChar(c) ==
    IF \E i \in 1..26 : UpperLetters[i] = c
    THEN LowerLetters[CHOOSE i \in 1..26 : UpperLetters[i] = c]
    ELSE c

Lower(t) == [i \in 1..Len(t) |-> LowerChar(t[i])]

\* k in t, for strings
Contains(t, k) ==
    \E i \in 1..(Len(t) - Len(k) + 1) : SubSeq(t, i, i + Len(k) - 1) = k

Keywords ==
    { <<"m","i","s","c","o","n">>, <<"e","r","r","o","r">>, <<"w","r","o","n","g">>,
      <<"c","o","n","f","u","s","e">>, <<"n","o","i","s","e">> }

UnseenSuffix == <<" ","(","u","n","s","e","e","n","@","q","i","d",")">>

LblUnknown == StrLabel(<<"u","n","k","n","o","w","n">>)

LblMisNoise ==
    StrLabel(<<"m","i","s","c","o","n","c","e","p","t","i","o","n","_","n","o","i","s","e">>)

LblCorrect == StrLabel(<<"c","o","r","r","e","c","t">>)

LblPartial == StrLabel(<<"p","a","r","t","i","a","l">>)

LblWrongSign == StrLabel(<<"W","r","o","n","g","_","s","i","g","n">>)

LblZero == IntLabel(<<"0">>)

LblOne == IntLabel(<<"1">>)

(***************************************************************************)
(* The classifier artifact misconception_clf.joblib.  A loaded classifier  *)
(* is opaque: it may expose n_features_in_ or coef_, accepts vectors of    *)
(* width dim only, and its predict_proba and predict may each raise.  Its  *)
(* output does not depend on the coordinates of the vector.                *)
(***************************************************************************)
MaxClfDim == 4

Classifier(attr, dim, proba_ok, predict_ok, classes, proba) ==
    [attr |-> attr, dim |-> dim, proba_ok |-> proba_ok, predict_ok |-> predict_ok,
     classes_ |-> classes, proba |-> proba]

\* class lists with the probabilities the classifier gives them
ClfOutputs ==
    { [classes |-> <<LblMisNoise, LblCorrect, LblPartial, LblWrongSign>>,
       proba |-> <<3000, 2500, 2500, 2000>>],
      [classes |-> <<LblCorrect, LblMisNoise>>, proba |-> <<8000, 2000>>],
      [classes |-> <<LblCorrect, LblWrongSign>>, proba |-> <<2654, 7346>>],
      [classes |-> <<LblZero, LblOne>>, proba |-> <<5000, 5000>>] }

Classifiers ==
    { Classifier(attr, dim, pr, pd, o.classes, o.proba) :
        attr \in {"n_features_in_", "coef_", "none"}, dim \in 1..MaxClfDim,
        pr \in BOOLEAN, pd \in BOOLEAN, o \in ClfOutputs }

\* clf.predict_proba([v])[0]
PredictProba(c, v) ==
    IF c.proba_ok /\ Len(v) = c.dim
    THEN [raised |-> FALSE, value |-> c.proba]
    ELSE [raised |-> TRUE]

\* np.argmax: the first index of the maximum
ArgMax(p) == CHOOSE i \in 1..Len(p) :
    /\ \A j \in 1..Len(p) : p[j] <= p[i]
    /\ \A j \in 1..(i - 1) : p[j] < p[i]

\* clf.predict([v])[0]: the class of maximal probability
Predict(c, v) ==
    IF c.predict_ok /\ Len(v) = c.dim
    THEN [raised |-> FALSE, value |-> c.classes_[ArgMax(c.proba)]]
    ELSE [raised |-> TRUE]

(***************************************************************************)
(* predict_label, lines 186-206: the width the classifier expects and the  *)
(* reconciliation of the gated vector to it.                               *)
(***************************************************************************)
ExpectedDim(c) ==
    IF c.attr = "n_features_in_" \/ c.attr = "coef_" THEN <<c.dim>> ELSE <<>>

\* np.tile(v, D // L)
Tile(v, D) == [j \in 1..D |-> v[((j - 1) % Len(v)) + 1]]

VecForPred(c, vec) ==
    LET expected_dim == ExpectedDim(c)
    IN  IF expected_dim # <<>> /\ Len(vec) # expected_dim[1]
        THEN LET L == Len(vec)
                 D == expected_dim[1]
             IN  IF D % L = 0 THEN Tile(vec, D)
                 ELSE IF D > L THEN PadRow(vec, D, 0)
                 ELSE TruncRow(vec, D)
        ELSE vec

(***************************************************************************)
(* round(x, 3) of a fixed-point value in which unit stands for 0.001: the  *)
(* nearest thousandth, an exact half going to the even thousandth.         *)
(***************************************************************************)
RoundTo(x, unit) ==
    LET lo == (x \div unit) * unit
        r == x - lo
    IN  IF 2 * r < unit THEN lo
        ELSE IF 2 * r > unit THEN lo + unit
        ELSE IF (lo \div unit) % 2 = 0 THEN lo ELSE lo + unit

(***************************************************************************)
(* predict_label, lines 208-216: label and confidence, or the failure of   *)
(* both predict_proba and predict.  The fallback hands predict the gated   *)
(* vector vec, not vec_for_pred.                                           *)
(***************************************************************************)
FallbackPredict(c, vec, vec_for_pred) ==
    LET p == Predict(c, vec)
    IN  IF p.raised THEN [failed |-> TRUE]
        ELSE [failed |-> FALSE, label |-> PyStr(p.value), conf |-> 6000]

Classify(c, vec) ==
    LET vec_for_pred == VecForPred(c, vec)
        pp == PredictProba(c, vec_for_pred)
    IN  IF ~pp.raised
        THEN [failed |-> FALSE, label |-> c.classes_[ArgMax(pp.value)],
              conf |-> pp.value[ArgMax(pp.value)]]
        ELSE FallbackPredict(c, vec, vec_for_pred)

(***************************************************************************)
(* predict_label, lines 218-227: the risk heuristic and the test of the    *)
(* label against the labels known for the question.                        *)
(***************************************************************************)
HasKeyword(label) == \E k \in Keywords : Contains(Lower(label.text), k)

KeywordRisk(label, conf) ==
    IF HasKeyword(label) THEN Max2(4000, 10000 - conf + 4000) ELSE 2000

\* qid is <<>> (None) or <<q>>
Unseen(lref, label, qid) ==
    qid # <<>> /\ qid[1] \in DOMAIN lref /\ label \notin lref[qid[1]]

Degraded(explanation) ==
    [raised |-> FALSE, label |-> LblUnknown, confidence |-> 5000, risk |-> 4000,
     explanation |-> explanation]

PredictLabel(fs, c, lref, enc, user_answer, qid) ==
    LET text == CleanText(user_answer)
        emb == EmbedClean(fs, enc, <<text>>)
    IN  IF emb.raised THEN [raised |-> TRUE]
        ELSE IF c = NoneVal THEN Degraded("No classifier artifact found.")
        ELSE LET vec == emb.value.data[1]
                 k == Classify(c, vec)
             IN  IF k.failed THEN Degraded("Classifier prediction failed.")
                 ELSE LET risk0 == KeywordRisk(k.label, k.conf)
                          ood == Unseen(lref, k.label, qid)
                          label == IF ood
                                   THEN StrLabel(k.label.text \o UnseenSuffix)
                                   ELSE PyStr(k.label)
                          risk == IF ood THEN Max2(risk0, 5000) ELSE risk0
                      IN  [raised |-> FALSE, label |-> label,
                           confidence |-> RoundTo(k.conf, 10), risk |-> RoundTo(risk, 10)]

(***************************************************************************)
(* Clustering.  eps is the rational p/q.  StandardScaler divides column j  *)
(* by its population standard deviation (by 1 when the column is constant) *)
(* so the squared distance of rows i and k of the standardized batch is    *)
(*     SUM_j d_j^2 * N^2 / V_j,  V_j = N * SUM x^2 - (SUM x)^2,            *)
(* over the columns with V_j > 0; the comparison with eps^2 is made exact  *)
(* by multiplying through by the product of the V_j.                       *)
(***************************************************************************)
RECURSIVE ProdSeq(_)
ProdSeq(s) == IF s = <<>> THEN 1 ELSE Head(s) * ProdSeq(Tail(s))

Column(X, j) == [n \in 1..Len(X) |-> X[n][j]]

\* N^2 times the population variance of column j
ScaledVar(X, j) ==
    Len(X) * Dot(Column(X, j), Column(X, j)) - SumSeq(Column(X, j)) * SumSeq(Column(X, j))

SqDiff(X, i, k, j) == (X[i][j] - X[k][j]) * (X[i][j] - X[k][j])

\* Euclidean distance of rows i and k of X (in tenths) is at most eps
WithinRaw(X, i, k, eps) ==
    eps.q * eps.q * SumSeq([j \in 1..Len(X[i]) |-> SqDiff(X, i, k, j)])
        <= 100 * eps.p * eps.p

\* the same for rows i and k of StandardScaler().fit_transform(X), given
\* V[j] = N^2 var_j
WithinScaled(X, V, i, k, eps) ==
    LET P == ProdSeq([j \in 1..Len(V) |-> IF V[j] > 0 THEN V[j] ELSE 1])
    IN  eps.q * eps.q * Len(X) * Len(X) *
            SumSeq([j \in 1..Len(V) |->
                IF V[j] > 0 THEN SqDiff(X, i, k, j) * (P \div V[j]) ELSE 0])
        <= eps.p * eps.p * P

\* the eps-neighbourhood of every point of the clustered space
Neighborhoods(X, eps, scale_before) ==
    LET V == [j \in 1..Len(X[1]) |-> ScaledVar(X, j)]
    IN  [i \in 1..Len(X) |->
            { k \in 1..Len(X) :
                IF scale_before THEN WithinScaled(X, V, i, k, eps)
                ELSE WithinRaw(X, i, k, eps) }]

\* variant: a point does not count itself among its neighbours
CorePointsExcludingSelf(nbrs, min_samples) ==
    { i \in DOMAIN nbrs : Cardinality(nbrs[i] \ {i}) >= min_samples }

CorePoints(nbrs, min_samples) ==
    { i \in DOMAIN nbrs : Cardinality(nbrs[i]) >= min_samples }

\* the unlabelled points the depth-first search from the members reaches
RECURSIVE Expand(_, _, _, _)
Expand(nbrs, core, labels, members) ==
    LET more == members \cup
                { v \in DOMAIN nbrs : labels[v] = -1 /\
                    \E u \in members \cap core : v \in nbrs[u] }
    IN  IF more = members THEN members ELSE Expand(nbrs, core, labels, more)

\* sklearn's dbscan_inner: points in index order, each unlabelled core point
\* founds the next cluster
RECURSIVE DbscanInner(_, _, _, _, _)
DbscanInner(nbrs, core, i, labels, label_num) ==
    IF i > Len(nbrs) THEN labels
    ELSE IF labels[i] # -1 \/ i \notin core
    THEN DbscanInner(nbrs, core, i + 1, labels, label_num)
    ELSE LET members == Expand(nbrs, core, labels, {i})
             labelled == [k \in DOMAIN nbrs |-> IF k \in members THEN label_num ELSE labels[k]]
         IN  DbscanInner(nbrs, core, i + 1, labelled, label_num + 1)

\* variant: the noise points are dropped from the labels
DbscanWithoutNoise(X, eps, min_samples, scale_before) ==
    IF eps.p <= 0
    THEN [raised |-> TRUE]
    ELSE LET nbrs == Neighborhoods(X, eps, scale_before)
         IN  [raised |-> FALSE,
              value |-> SelectSeq(DbscanInner(nbrs, CorePoints(nbrs, min_samples), 1,
                                              [k \in 1..Len(X) |-> -1], 0),
                                  LAMBDA l : l # -1)]

\* DBSCAN(eps, min_samples).fit(X).labels_; eps must be positive
Dbscan(X, eps, min_samples, scale_before) ==
    IF eps.p <= 0
    THEN [raised |-> TRUE]
    ELSE LET nbrs == Neighborhoods(X, eps, scale_before)
         IN  [raised |-> FALSE,
              value |-> DbscanInner(nbrs, CorePoints(nbrs, min_samples), 1,
                                    [k \in 1..Len(X) |-> -1], 0)]

\* variant: a later member of a cluster replaces the recorded exemplar
RECURSIVE ExemplarsLastMember(_, _, _, _)
ExemplarsLastMember(labels, texts, i, exemplars) ==
    IF i > Len(labels) THEN exemplars
    ELSE IF labels[i] = -1 THEN ExemplarsLastMember(labels, texts, i + 1, exemplars)
    ELSE ExemplarsLastMember(labels, texts, i + 1,
                             [c \in DOMAIN exemplars \cup {labels[i]} |->
                                 IF c = labels[i] THEN texts[i] ELSE exemplars[c]])

\* lines 257-263: the first member of every cluster, noise skipped
RECURSIVE Exemplars(_, _, _, _)
Exemplars(labels, texts, i, exemplars) ==
    IF i > Len(labels) THEN exemplars
    ELSE IF labels[i] = -1 THEN Exemplars(labels, texts, i + 1, exemplars)
    ELSE IF labels[i] \notin DOMAIN exemplars
    THEN Exemplars(labels, texts, i + 1,
                   [c \in DOMAIN exemplars \cup {labels[i]} |->
                       IF c = labels[i] THEN texts[i] ELSE exemplars[c]])
    ELSE Exemplars(labels, texts, i + 1, exemplars)

\* the empty dict
EmptyDict == [c \in {} |-> <<>>]

(***************************************************************************)
(* MisconceptionAnalyzer.cluster_unsupervised.  invoked records which of   *)
(* the collaborators the call reached.                                     *)
(***************************************************************************)
\* lines 248-270: the encoder, the gate, the clustering, the exemplars
ClusterNonEmpty(fs, enc, texts, eps, min_samples, scale_before) ==
    LET H_tilde == EmbedClean(fs, enc, texts)
    IN  IF H_tilde.raised
        THEN [raised |-> TRUE, invoked |-> {"embed", "transform"}]
        ELSE LET db == Dbscan(H_tilde.value.data, eps, min_samples, scale_before)
             IN  IF db.raised
                 THEN [raised |-> TRUE, invoked |-> {"embed", "transform", "dbscan"}]
                 ELSE [raised |-> FALSE, cluster_labels |-> db.value,
                       exemplars |-> Exemplars(db.value, texts, 1, EmptyDict),
                       fsag_active |-> fs.loaded,
                       note |-> "Clustering performed on FSAG-attenuated embeddings (domain-agnostic, density-based).",
                       invoked |-> {"embed", "transform", "dbscan"}]

\* variant: no early return for an empty list of texts
ClusterWithoutEmptyCheck(fs, enc, texts, eps, min_samples, scale_before) ==
    ClusterNonEmpty(fs, enc, texts, eps, min_samples, scale_before)

ClusterUnsupervised(fs, enc, texts, eps, min_samples, scale_before) ==
    IF texts = <<>>
    THEN [raised |-> FALSE, cluster_labels |-> <<>>, exemplars |-> EmptyDict,
          note |-> "empty input", invoked |-> {}]
    ELSE ClusterNonEmpty(fs, enc, texts, eps, min_samples, scale_before)

(***************************************************************************)
(* DifficultyEstimator.  Difficulties are fixed-point 1e-7 (10000000       *)
(* stands for 1.0); the discrimination a is in tenths and the location b   *)
(* in hundredths.                                                          *)
(***************************************************************************)
\* a table read by pandas: its columns, and its rows in file order
Table(cols, rows) == [exists |-> TRUE, readable |-> TRUE, cols |-> cols, rows |-> rows]

Item(qid, a, b) == [qid |-> qid, a |-> a, b |-> b]

\* qid 5 is stored twice: the first row is the one estimate reads
ItemsFull ==
    Table({"qid", "a", "b"}, <<Item(5, 12, 0), Item(7, 8, -71), Item(5, 20, 100)>>)

\* no column a (the placeholder a of a row is never read)
ItemsNoA == Table({"qid", "b"}, <<Item(5, 0, 100), Item(6, 0, 66)>>)

\* a location b = -710.0
ItemsExtreme == Table({"qid", "a", "b"}, <<Item(5, 10, -71000), Item(7, 10, -200)>>)

ItemsEmpty == Table({"qid", "a", "b"}, <<>>)

\* tables of the wrong shape: no column qid, no column b
ItemsNoQid == Table({"a", "b"}, <<Item(0, 12, 0)>>)

ItemsNoB == Table({"qid", "a"}, <<Item(5, 12, 0)>>)

ItemTables == {ItemsFull, ItemsNoA, ItemsExtreme, ItemsEmpty, ItemsNoQid, ItemsNoB}

ItemFiles == {NoFile, CorruptFile} \cup ItemTables

\* DifficultyEstimator._load: parquet first, json when parquet gave nothing
LoadItems(path_parq, path_json) ==
    LET df1 == IF path_parq.exists /\ path_parq.readable THEN path_parq ELSE NoneVal
        df == IF df1 = NoneVal /\ path_json.exists
              THEN IF path_json.readable THEN path_json ELSE NoneVal
              ELSE df1
    IN  [items |-> df, n_items |-> IF df = NoneVal THEN 0 ELSE Len(df.rows)]

\* 1/(1+exp(-b)) for the locations b (hundredths) of the tables
Logistic(b) ==
    CASE b = 0 -> 5000000
      [] b = -71 -> 3295988
      [] b = 66 -> 6592604
      [] b = 100 -> 7310586
      [] b = -200 -> 1192029

\* math.exp(-b) raises OverflowError above ln(DBL_MAX) = 709.78...
ExpOverflows(b) == -b > 70978

Bucket(x) ==
    IF x < 3300000 THEN "Easy"
    ELSE IF x < 6600000 THEN "Medium"
    ELSE "Hard"

(***************************************************************************)
(* DifficultyEstimator._lex_complexity.                                    *)
(***************************************************************************)
Digits == {"0", "1", "2", "3", "4", "5", "6", "7", "8", "9"}

IsAlnum(c) ==
    \/ \E i \in 1..26 : UpperLetters[i] = c \/ LowerLetters[i] = c
    \/ c \in Digits

\* re.sub(r"[^a-zA-Z0-9\s]", " ", question_text).lower()
Normalised(q) ==
    Lower([i \in 1..Len(q) |-> IF IsAlnum(q[i]) \/ IsSpace(q[i]) THEN q[i] ELSE " "])

\* str.split(): the maximal runs of non-whitespace
RECURSIVE Split(_, _)
Split(t, word) ==
    IF t = <<>> THEN (IF word = <<>> THEN <<>> ELSE <<word>>)
    ELSE IF IsSpace(Head(t))
    THEN (IF word = <<>> THEN <<>> ELSE <<word>>) \o Split(Tail(t), <<>>)
    ELSE Split(Tail(t), Append(word, Head(t)))

TaskVerbs ==
    { <<"p","r","o","v","e">>, <<"d","e","r","i","v","e">>,
      <<"c","o","n","s","t","r","u","c","t">>, <<"s","h","o","w"," ","t","h","a","t">> }

\* 0.35 * max(0, 1 - uniq / (L + 1e-6)); the 1e-6 leaves 3.5e-7 * uniq / L^2
Diversity(L, uniq) ==
    IF L = 0 THEN 3500000
    ELSE Max2(0, RoundDiv(3500000 * (L - uniq), L) + RoundDiv(35 * uniq, 10 * L * L))

LexComplexity(question_text) ==
    LET t == Split(Normalised(question_text), <<>>)
        L == Len(t)
        uniq == Cardinality({t[i] : i \in 1..L})
        val == 62500 * Min2(L, 40) + Diversity(L, uniq)
               + (IF \E x \in TaskVerbs : Contains(question_text, x) THEN 4000000 ELSE 0)
    IN  Max2(0, Min2(10000000, val))

(***************************************************************************)
(* DifficultyEstimator.estimate.  qid is <<>> (None) or <<q>>.             *)
(***************************************************************************)
MatchingRows(tbl, q) == SelectSeq(tbl.rows, LAMBDA r : r.qid = q)

IrtEstimate(tbl, q) ==
    LET row == MatchingRows(tbl, q)[1]
    IN  IF "b" \notin tbl.cols \/ ExpOverflows(row.b)
        THEN [raised |-> TRUE]
        ELSE [raised |-> FALSE, qid |-> <<q>>, has_irt |-> TRUE,
              a |-> IF "a" \in tbl.cols THEN row.a ELSE 10,
              b |-> row.b,
              difficulty_norm |-> RoundTo(Logistic(row.b), 10000),
              bucket |-> Bucket(Logistic(row.b))]

LexEstimate(question_text, qid) ==
    [raised |-> FALSE, qid |-> qid, has_irt |-> FALSE,
     difficulty_norm |-> RoundTo(LexComplexity(question_text), 10000),
     bucket |-> Bucket(LexComplexity(question_text))]

Estimate(tbl, question_text, qid) ==
    IF qid # <<>> /\ tbl # NoneVal
    THEN IF "qid" \notin tbl.cols THEN [raised |-> TRUE]
         ELSE IF MatchingRows(tbl, qid[1]) # <<>> THEN IrtEstimate(tbl, qid[1])
         ELSE LexEstimate(question_text, qid)
    ELSE LexEstimate(question_text, qid)

QEmpty == <<>>

QProve == <<"p","r","o","v","e"," ","x">>

QUpperProve == <<"P","r","o","v","e"," ","x">>

QRepeat == <<"a"," ","a">>

QPunct == <<"a",",","b">>

QuestionTexts == {QEmpty, QProve, QUpperProve, QRepeat, QPunct}

(***************************************************************************)
(* The label reference cluster_labels.parquet and its loading, lines       *)
(* 145-153.  Only membership in label_ref[qid] is ever used, so the sorted *)
(* list of unique labels is kept as a set.                                 *)
(***************************************************************************)
LabelRow(qid, label) == [qid |-> qid, label |-> label]

LabelsFull ==
    Table({"qid", "label"},
          <<LabelRow(5, LblMisNoise), LabelRow(5, LblCorrect), LabelRow(7, LblOne),
            LabelRow(5, LblMisNoise), LabelRow(7, LblZero)>>)

\* a table of the wrong shape: no column label
LabelsNoLabel == Table({"qid"}, <<LabelRow(5, LblCorrect)>>)

LabelTables == {LabelsFull, LabelsNoLabel}

LabelFiles == {NoFile, CorruptFile} \cup LabelTables

SeqRange(s) == {s[i] : i \in 1..Len(s)}

LoadLabels(f) ==
    IF f.exists /\ f.readable /\ {"qid", "label"} \subseteq f.cols
    THEN [q \in {r.qid : r \in SeqRange(f.rows)} |->
            {PyStr(r.label) : r \in {x \in SeqRange(f.rows) : x.qid = q}}]
    ELSE EmptyDict

(***************************************************************************)
(* The classifier file: joblib.load is not guarded, so an unreadable file  *)
(* ends the constructor with an exception.                                 *)
(***************************************************************************)
ClfFile(c) == [exists |-> TRUE, readable |-> TRUE, object |-> c]

ClfFiles == {NoFile, CorruptFile} \cup {ClfFile(c) : c \in Classifiers}

(***************************************************************************)
(* Start-up, app.py lines 29-31: the encoder, MisconceptionAnalyzer(...),  *)
(* DifficultyEstimator(...).  dir holds the five artifact files.           *)
(***************************************************************************)
Dir(gate, classifier, labels, irt_parquet, irt_json) ==
    [fsag_weights |-> gate, misconception_clf |-> classifier, cluster_labels |-> labels,
     irt_parquet |-> irt_parquet, irt_json |-> irt_json]

\* MisconceptionAnalyzer.__init__ and _load
AnalyzerRaises(dir) == dir.misconception_clf.exists /\ ~dir.misconception_clf.readable

Startup(dir, enc) ==
    /\ artifacts = [dir |-> dir, encoder |-> enc]
    /\ encoder = enc
    /\ fsag = TryLoad(dir.fsag_weights)
    /\ result = NoneVal
    /\ IF AnalyzerRaises(dir)
       THEN /\ startup = "MisconceptionAnalyzer raised"
            /\ clf = NoneVal
            /\ label_ref = EmptyDict
            /\ loaded = FALSE
            /\ items = NoneVal
            /\ n_items = 0
       ELSE /\ startup = "ok"
            /\ clf = IF dir.misconception_clf.exists THEN dir.misconception_clf.object
                     ELSE NoneVal
            /\ label_ref = LoadLabels(dir.cluster_labels)
            /\ loaded = TRUE
            /\ items = LoadItems(dir.irt_parquet, dir.irt_json).items
            /\ n_items = LoadItems(dir.irt_parquet, dir.irt_json).n_items

(***************************************************************************)
(* Calls.  A call is made when no result is outstanding; Respond hands the *)
(* outstanding result (or the exception) to the caller.                    *)
(***************************************************************************)
Qids == {<<>>, <<5>>, <<7>>, <<9>>}

Frozen == UNCHANGED <<artifacts, fsag, clf, label_ref, loaded, encoder, items, n_items, startup>>

Ready == startup = "ok" /\ result = NoneVal

TransformCall ==
    /\ Ready
    /\ \E H \in GateInputs :
         result' = [op |-> "transform", H |-> H, ret |-> Transform(fsag, H)]
    /\ Frozen

GatesCall ==
    /\ Ready
    /\ \E H \in GateInputs :
         result' = [op |-> "gates", H |-> H, ret |-> Gates(fsag, H)]
    /\ Frozen

PredictLabelCall ==
    /\ Ready
    /\ \E user_answer \in Texts, qid \in Qids :
         result' = [op |-> "predict_label", user_answer |-> user_answer, qid |-> qid,
                    ret |-> PredictLabel(fsag, clf, label_ref, encoder, user_answer, qid)]
    /\ Frozen

EstimateCall ==
    /\ Ready
    /\ \E question_text \in QuestionTexts, qid \in Qids :
         result' = [op |-> "estimate", question_text |-> question_text, qid |-> qid,
                    ret |-> Estimate(items, question_text, qid)]
    /\ Frozen

SimilarityCall ==
    /\ Ready
    /\ \E a_text \in Texts, b_text \in Texts :
         result' = [op |-> "similarity", a_text |-> a_text, b_text |-> b_text,
                    ret |-> Similarity(fsag, encoder, a_text, b_text)]
    /\ Frozen

Respond ==
    /\ startup = "ok"
    /\ result # NoneVal
    /\ result' = NoneVal
    /\ Frozen

(***************************************************************************)
(* cluster_unsupervised calls: batches of at most MaxBatch texts.          *)
(***************************************************************************)
MaxBatch == 3

BatchesUpTo(n) == UNION { [1..m -> Texts] : m \in 0..n }

Rational(p, q) == [p |-> p, q |-> q]

\* 0.5 (the default), 2, 3, and the invalid 0
EpsValues == {Rational(1, 2), Rational(2, 1), Rational(3, 1), Rational(0, 1)}

\* 8 is the default
MinSamplesValues == {1, 2, 3, 8}

ClusterCall(batches) ==
    /\ Ready
    /\ \E texts \in batches, eps \in EpsValues, min_samples \in MinSamplesValues,
          scale_before \in BOOLEAN :
         result' = [op |-> "cluster_unsupervised", texts |-> texts, eps |-> eps,
                    min_samples |-> min_samples, scale_before |-> scale_before,
                    ret |-> ClusterUnsupervised(fsag, encoder, texts, eps, min_samples,
                                                scale_before)]
    /\ Frozen

(***************************************************************************)
(* Artifact directories.                                                   *)
(***************************************************************************)
\* W1 is h x din, W2 is g x h2
GateBundle(h, din, g, h2) ==
    Bundle(WeightMat(h, din, 0), BiasVec(h, 0), WeightMat(g, h2, 1), BiasVec(g, 0))

\* a few gates: absent, unreadable, of the embedding's width, wider, narrower,
\* with W2 not fitting W1, with b1 not fitting W1
FewGateFiles ==
    { NoFile, CorruptFile, GateBundle(2, 2, 2, 2), GateBundle(2, 3, 1, 2),
      GateBundle(1, 1, 3, 1), GateBundle(2, 2, 2, 1),
      Bundle(WeightMat(2, 2, 0), BiasVec(1, 0), WeightMat(2, 2, 1), BiasVec(2, 0)) }

FewClfFiles ==
    { NoFile, CorruptFile,
      ClfFile(Classifier("n_features_in_", 2, TRUE, TRUE,
                         <<LblMisNoise, LblCorrect>>, <<7000, 3000>>)),
      ClfFile(Classifier("coef_", 4, FALSE, TRUE,
                         <<LblCorrect, LblMisNoise>>, <<8000, 2000>>)) }

\* the whole application
AppDirs ==
    { Dir(g, c, l, pq, js) :
        g \in FewGateFiles, c \in FewClfFiles,
        l \in {NoFile, CorruptFile, LabelsFull},
        pq \in {NoFile, CorruptFile, ItemsFull},
        js \in {NoFile, ItemsNoQid} }

\* the gate alone
GateDirs == { Dir(g, NoFile, NoFile, NoFile, NoFile) : g \in GateFiles }

\* the supervised branch
PredictDirs ==
    { Dir(g, c, l, NoFile, NoFile) : g \in FewGateFiles, c \in ClfFiles, l \in LabelFiles }

\* the unsupervised branch
ClusterDirs == { Dir(g, NoFile, NoFile, NoFile, NoFile) : g \in FewGateFiles }

\* the difficulty estimator
DifficultyDirs ==
    { Dir(NoFile, NoFile, NoFile, pq, js) : pq \in ItemFiles, js \in ItemFiles }

(***************************************************************************)
(* Specifications.                                                         *)
(***************************************************************************)
Init == \E dir \in AppDirs, enc \in Encoders : Startup(dir, enc)

Next ==
    \/ TransformCall
    \/ GatesCall
    \/ PredictLabelCall
    \/ ClusterCall(BatchesUpTo(1))
    \/ EstimateCall
    \/ SimilarityCall
    \/ Respond

Spec == Init /\ [][Next]_vars

InitFSAG == \E dir \in GateDirs, enc \in Encoders : Startup(dir, enc)

NextFSAG == TransformCall \/ GatesCall \/ Respond

SpecFSAG == InitFSAG /\ [][NextFSAG]_vars

InitPredict == \E dir \in PredictDirs, enc \in Encoders : Startup(dir, enc)

NextPredict == PredictLabelCall \/ Respond

SpecPredict == InitPredict /\ [][NextPredict]_vars

InitCluster == \E dir \in ClusterDirs, enc \in Encoders : Startup(dir, enc)

NextCluster == ClusterCall(BatchesUpTo(MaxBatch)) \/ Respond

SpecCluster == InitCluster /\ [][NextCluster]_vars

InitSimilarity == \E dir \in ClusterDirs, enc \in Encoders : Startup(dir, enc)

NextSimilarity == SimilarityCall \/ Respond

SpecSimilarity == InitSimilarity /\ [][NextSimilarity]_vars

InitDifficulty == \E dir \in DifficultyDirs, enc \in Encoders : Startup(dir, enc)

NextDifficulty == EstimateCall \/ Respond

SpecDifficulty == InitDifficulty /\ [][NextDifficulty]_vars

(***************************************************************************)
(* Properties.                                                             *)
(***************************************************************************)
Called(op) == result # NoneVal /\ result.op = op

Returned(op) == Called(op) /\ ~result.ret.raised

\* the shape invariants of the data model for a loaded bundle
DataModelShapes(b) ==
    /\ b.W1.ndim = 2 /\ b.W2.ndim = 2
    /\ b.b1.ndim = 1 /\ b.b2.ndim = 1
    /\ b.b1.shape[1] = b.W1.shape[1]
    /\ b.b2.shape[1] = b.W2.shape[1]
    /\ b.W2.shape[2] = b.W1.shape[1]

\* C1: predict_label never raises: whatever the text, the qid and the loaded
\* artifacts, the call returns a result with label, confidence and risk.
C1_PredictLabelNeverRaises ==
    Called("predict_label") =>
        /\ ~result.ret.raised
        /\ {"label", "confidence", "risk"} \subseteq DOMAIN result.ret

\* C2: the risk returned by predict_label lies in [0,1]; a classifier that
\* predicts "misconception_noise" with confidence 0.3 yields risk 1.0.
C2_RiskWithinUnitInterval ==
    Returned("predict_label") =>
        /\ result.ret.risk >= 0 /\ result.ret.risk <= 10000
        /\ (result.ret.label = LblMisNoise /\ result.ret.confidence = 3000
              => result.ret.risk = 10000)

\* C3: with the gate inactive, transform(H) returns H itself, element for
\* element and with the same shape, for single embeddings and for batches.
C3_InactiveGateIsIdentity ==
    Called("transform") /\ ~fsag.loaded =>
        result.ret = [raised |-> FALSE, value |-> result.H]

C3_Witness ==
    /\ Called("transform") /\ ~fsag.loaded
    /\ artifacts.dir.fsag_weights.exists /\ artifacts.dir.fsag_weights.readable
    /\ result.H.ndim = 2 /\ result.H.shape[2] = MaxDim
    /\ \E n \in 1..2 : \E j \in 1..MaxDim : result.ret.value.data[n][j] < 0

\* C4: with a bundle that satisfies the shape invariants of the data model,
\* transform returns a result of H's own shape, whatever H's width is
\* relative to W1's input width and to the gate width.
C4_TransformKeepsWidth ==
    Called("transform") /\ fsag.loaded /\ DataModelShapes(fsag) =>
        /\ ~result.ret.raised
        /\ result.ret.value.ndim = result.H.ndim
        /\ result.ret.value.shape = result.H.shape
        /\ \A n \in 1..Len(result.H.data) :
             Len(result.ret.value.data[n]) = Width(result.H)

\* H narrower than W1's input and wider than the gate, in a batch
C4_Witness ==
    /\ Called("transform") /\ fsag.loaded /\ DataModelShapes(fsag)
    /\ result.H.ndim = 2
    /\ Width(result.H) < fsag.W1.shape[2]
    /\ fsag.W2.shape[1] < Width(result.H)
    /\ ~result.ret.raised
    /\ result.ret.value # result.H

\* C5: no artifact-load failure is surfaced: start-up completes for every
\* state of every artifact file, and a missing, unreadable or misshapen file
\* leaves its component degraded.
C5_LoadFailuresNeverSurface ==
    LET dir == artifacts.dir
        Bad(f) == ~f.exists \/ ~f.readable
    IN  /\ startup = "ok"
        /\ (Bad(dir.fsag_weights) => ~fsag.loaded)
        /\ (Bad(dir.misconception_clf) => clf = NoneVal)
        /\ (Bad(dir.cluster_labels) \/ ~({"qid", "label"} \subseteq dir.cluster_labels.cols)
              => label_ref = EmptyDict)
        /\ ((\A f \in {dir.irt_parquet, dir.irt_json} :
                 Bad(f) \/ ~({"qid", "b"} \subseteq f.cols))
              => (items = NoneVal /\ n_items = 0))

\* C6: in every reachable state the gate is active only if the weights file
\* existed and satisfied every shape invariant of the data model, W2's input
\* dimension = W1's first dimension included.
C6_ActiveOnlyIfShapesValid ==
    fsag.loaded =>
        /\ artifacts.dir.fsag_weights.exists
        /\ artifacts.dir.fsag_weights.readable
        /\ DataModelShapes(artifacts.dir.fsag_weights)

\* the item stored for question q: the first row of that qid in a table
\* that has the columns qid and b
HasStoredItem(q) ==
    /\ items # NoneVal
    /\ {"qid", "b"} \subseteq items.cols
    /\ \E i \in 1..Len(items.rows) : items.rows[i].qid = q

StoredItem(q) ==
    items.rows[CHOOSE i \in 1..Len(items.rows) :
        /\ items.rows[i].qid = q
        /\ \A k \in 1..(i - 1) : items.rows[k].qid # q]

\* C7: for a qid with a stored item (a, b), estimate returns has_irt = true,
\* the item's a and b, difficulty_norm = sigmoid(b) rounded to 3 decimals and
\* its bucket (b = 0.0 gives 0.5 and "Medium"); for an absent qid or one with
\* no stored item, has_irt = false and the lexical heuristic is used.
C7_EstimateByItemOrLexical ==
    Called("estimate") =>
        /\ ~result.ret.raised
        /\ IF result.qid # <<>> /\ HasStoredItem(result.qid[1])
           THEN LET item == StoredItem(result.qid[1])
                IN  /\ result.ret.has_irt
                    /\ result.ret.a = (IF "a" \in items.cols THEN item.a ELSE 10)
                    /\ result.ret.b = item.b
                    /\ result.ret.difficulty_norm = RoundTo(Logistic(item.b), 10000)
                    /\ result.ret.bucket = Bucket(Logistic(item.b))
                    /\ (item.b = 0 =>
                          (result.ret.difficulty_norm = 5000000 /\ result.ret.bucket = "Medium"))
           ELSE /\ ~result.ret.has_irt
                /\ result.ret.difficulty_norm =
                       RoundTo(LexComplexity(result.question_text), 10000)

\* C8: with a classifier whose probability output is unavailable but which
\* predicts a label for vectors of its expected width, predict_label returns
\* the predicted label with confidence 0.6, not the "unknown" response, for
\* every width of the gated embedding.
C8_FallbackPredictsAtEveryWidth ==
    /\ Returned("predict_label")
    /\ clf # NoneVal
    /\ ExpectedDim(clf) # <<>> /\ ~clf.proba_ok /\ clf.predict_ok
    => /\ result.ret.confidence = 6000
       /\ result.ret.label.text # LblUnknown.text
       /\ "explanation" \notin DOMAIN result.ret

\* C9: cluster_unsupervised on an empty list returns cluster_labels = [] and
\* exemplars = {} normally, without invoking the encoder, the gate or the
\* clustering routine.
C9_EmptyBatchReturnsEmpty ==
    Called("cluster_unsupervised") /\ result.texts = <<>> =>
        /\ ~result.ret.raised
        /\ result.ret.cluster_labels = <<>>
        /\ result.ret.exemplars = EmptyDict
        /\ result.ret.invoked = {}

\* an empty batch where the gate or the clustering, if invoked, would raise
C9_Witness ==
    /\ Returned("cluster_unsupervised") /\ result.texts = <<>>
    /\ fsag.loaded /\ ~DataModelShapes(fsag)
    /\ result.eps.p = 0

\* C10: the cluster_labels returned by cluster_unsupervised has exactly one
\* integer label per input text, each -1 (noise) or a non-negative cluster id.
C10_OneLabelPerText ==
    Returned("cluster_unsupervised") =>
        /\ Len(result.ret.cluster_labels) = Len(result.texts)
        /\ \A i \in 1..Len(result.ret.cluster_labels) :
             result.ret.cluster_labels[i] \in Int /\ result.ret.cluster_labels[i] >= -1

\* a full batch with a cluster and a noise point, on gated embeddings
C10_Witness ==
    /\ Returned("cluster_unsupervised")
    /\ Len(result.texts) = MaxBatch
    /\ fsag.loaded
    /\ \E i, k \in 1..Len(result.ret.cluster_labels) :
         result.ret.cluster_labels[i] = -1 /\ result.ret.cluster_labels[k] = 0

\* the eps-neighbourhoods of the space cluster_unsupervised clustered: the
\* gated embeddings of the texts, standardized when scale_before is true
ClusteredNeighborhoods ==
    Neighborhoods(EmbedClean(fsag, encoder, result.texts).value.data,
                  result.eps, result.scale_before)

\* C11: if every point of the clustered space lies within eps of one core
\* point (a point with at least min_samples points, itself included, within
\* eps), every input gets cluster id 0 and none is labelled noise.
C11_SingleDenseCoreIsOneCluster ==
    Returned("cluster_unsupervised") /\ result.texts # <<>> =>
        \/ \A i \in 1..Len(result.texts) : result.ret.cluster_labels[i] = 0
        \/ LET nbrs == ClusteredNeighborhoods
           IN  ~\E c \in DOMAIN nbrs :
                   /\ Cardinality(nbrs[c]) >= result.min_samples
                   /\ nbrs[c] = DOMAIN nbrs

\* a full batch of distinct points whose only all-covering core point is not
\* the first point, with min_samples equal to the batch size
C11_Witness ==
    /\ Returned("cluster_unsupervised")
    /\ Len(result.texts) = MaxBatch
    /\ result.min_samples = MaxBatch
    /\ LET nbrs == ClusteredNeighborhoods
       IN  /\ nbrs[1] # DOMAIN nbrs
           /\ \E c \in DOMAIN nbrs : nbrs[c] = DOMAIN nbrs
    /\ \A i \in 1..Len(result.texts) : result.ret.cluster_labels[i] = 0

\* C12: similarity returns a value in [-1, 1] computed from the raw
\* embeddings: for the same texts and encoder the result is the same under
\* every state of the gate, inactive or active with any weights.
C12_SimilarityIgnoresGate ==
    Returned("similarity") =>
        /\ result.ret.value >= -10000 /\ result.ret.value <= 10000
        /\ \A f \in GateFiles :
             Similarity(TryLoad(f), encoder, result.a_text, result.b_text) = result.ret

\* two different texts, an active gate that changes their embeddings, and a
\* similarity that is not the upper clamp
C12_Witness ==
    /\ Returned("similarity")
    /\ CleanText(result.a_text) # CleanText(result.b_text)
    /\ fsag.loaded /\ DataModelShapes(fsag)
    /\ LET raw == Embed(<<CleanText(result.a_text), CleanText(result.b_text)>>, encoder)
       IN  Transform(fsag, raw.value).value # raw.value
    /\ result.ret.value < 10000

\* the labels the label file holds for question q, as texts
ObservedLabels(q) ==
    { r.label.text : r \in { x \in SeqRange(artifacts.dir.cluster_labels.rows) : x.qid = q } }

\* C13: when the classifier predicts, the risk is built as base 0.2, keyword
\* risk, out-of-distribution floor, each step only raising it: the risk is
\* >= 0.2; the label is annotated as unseen and the risk raised to at least
\* 0.5 (never below the keyword risk) exactly when qid is given, a label
\* reference exists for it and the predicted label is not among the labels
\* observed for it; otherwise label and risk stay as they were.
C13_RiskOnlyRaisedUnseenIffNew ==
    Returned("predict_label") /\ "explanation" \notin DOMAIN result.ret =>
        LET emb == EmbedClean(fsag, encoder, <<CleanText(result.user_answer)>>)
            k == Classify(clf, emb.value.data[1])
            keyword_risk == KeywordRisk(k.label, k.conf)
            unseen == /\ result.qid # <<>>
                      /\ result.qid[1] \in DOMAIN label_ref
                      /\ k.label.text \notin ObservedLabels(result.qid[1])
        IN  /\ result.ret.risk >= 2000
            /\ keyword_risk >= 2000
            /\ IF unseen
               THEN /\ result.ret.label = StrLabel(k.label.text \o UnseenSuffix)
                    /\ result.ret.risk >= 5000
                    /\ result.ret.risk = RoundTo(Max2(keyword_risk, 5000), 10)
               ELSE /\ result.ret.label = PyStr(k.label)
                    /\ result.ret.risk = RoundTo(keyword_risk, 10)

\* C14: in every result of cluster_unsupervised the keys of exemplars are
\* exactly the non-negative labels occurring in cluster_labels (-1 is never
\* a key), and exemplars[c] is texts[i] for the smallest i labelled c.
C14_ExemplarsAreFirstMembers ==
    Returned("cluster_unsupervised") =>
        LET labels == result.ret.cluster_labels
            ex == result.ret.exemplars
        IN  /\ DOMAIN ex = { labels[i] : i \in DOMAIN labels } \ {-1}
            /\ \A c \in DOMAIN ex :
                 \E i \in DOMAIN labels :
                     /\ labels[i] = c
                     /\ \A k \in 1..(i - 1) : labels[k] # c
                     /\ ex[c] = result.texts[i]

\* the first text is noise and the cluster that follows has two members
\* with different texts, so its exemplar is neither the first text nor the
\* cluster's last member
C14_Witness ==
    /\ Returned("cluster_unsupervised")
    /\ result.texts # <<>>
    /\ result.ret.cluster_labels[1] = -1
    /\ \E i, k \in DOMAIN result.ret.cluster_labels :
         /\ i < k
         /\ result.ret.cluster_labels[i] = 0 /\ result.ret.cluster_labels[k] = 0
         /\ result.texts[i] # result.texts[k]
         /\ result.ret.exemplars[0] = result.texts[i]

\* C15: in every result of estimate, on the item path and on the lexical
\* path, the bucket agrees with the returned 3-decimal difficulty_norm:
\* "Easy" iff it is < 0.33, "Medium" iff 0.33 <= it < 0.66, "Hard" iff it
\* is >= 0.66.
C15_BucketMatchesReportedDifficulty ==
    Returned("estimate") =>
        /\ result.ret.bucket = "Easy" <=> result.ret.difficulty_norm < 3300000
        /\ result.ret.bucket = "Medium" <=>
               (3300000 <= result.ret.difficulty_norm /\ result.ret.difficulty_norm < 6600000)
        /\ result.ret.bucket = "Hard" <=> result.ret.difficulty_norm >= 6600000

====
